---- MODULE Spec2Model ----
(***************************************************************************)
(* Model of src/main.py: the receipt-extraction pipeline                   *)
(*   exists check -> encode image -> API key -> remote call ->             *)
(*   parse reply -> derive filename -> write JSON -> rename image.         *)
(* Strings are sequences of one-character strings, so that the regular     *)
(* expression and the os.path functions are computed on characters.        *)
(***************************************************************************)
EXTENDS Integers, Sequences, FiniteSets, TLC

(***************************************************************************)
(* Bounds of the model.                                                    *)
(***************************************************************************)
\* longest run of characters put after the year field of a date string
MaxTail == 1

(***************************************************************************)
(* String literals of the program.                                         *)
(***************************************************************************)
Prefix == <<"l","u","n","c","h","_","r","e","c","e","i","p","t","_">>
JsonExt == <<".","j","s","o","n">>
UnknownStem == Prefix \o <<"u","n","k","n","o","w","n","_","d","a","t","e">>
UnknownName == UnknownStem \o JsonExt

(***************************************************************************)
(* re.match(r"^(\d{2})-(\d{2})-(\d{4})$", date_str)                        *)
(***************************************************************************)
AsciiDigits == {"0","1","2","3","4","5","6","7","8","9"}
\* a str pattern is a Unicode pattern: \d matches every decimal digit,
\* here ARABIC-INDIC DIGIT THREE besides the ASCII ones
UnicodeDigits == {"U+0663"}
IsDigitChar(c) == c \in AsciiDigits \cup UnicodeDigits

\* the atoms of the pattern between ^ and $: "d" is \d, anything else a literal
Pattern == <<"d","d","-","d","d","-","d","d","d","d">>

AtomMatches(a, c) == IF a = "d" THEN IsDigitChar(c) ELSE c = a

\* $ without re.MULTILINE: at the end of the string, or just before a
\* newline that is the last character of the string
DollarAt(s, pos) == \/ pos = Len(s) + 1
                    \/ pos = Len(s) /\ s[Len(s)] = "\n"

\* a failed match (Python's None)
NoMatch == <<>>

\* the groups (day, month, year) of the match, or NoMatch
re_match(s) ==
  IF /\ Len(s) >= Len(Pattern)
     /\ \A i \in 1..Len(Pattern) : AtomMatches(Pattern[i], s[i])
     /\ DollarAt(s, Len(Pattern) + 1)
  THEN <<SubSeq(s, 1, 2), SubSeq(s, 4, 5), SubSeq(s, 7, 10)>>
  ELSE NoMatch

(***************************************************************************)
(* os.path (posixpath) as used by rename_image_file.                       *)
(***************************************************************************)
\* s.rfind(c): the last index of c in s, 0 when absent (1-based)
RFind(s, c) == LET I == {i \in 1..Len(s) : s[i] = c}
               IN IF I = {} THEN 0 ELSE CHOOSE i \in I : \A j \in I : j <= i

RECURSIVE RStripSlash(_)
RStripSlash(s) == IF Len(s) > 0 /\ s[Len(s)] = "/"
                  THEN RStripSlash(SubSeq(s, 1, Len(s) - 1))
                  ELSE s

dirname(p) == LET head == SubSeq(p, 1, RFind(p, "/"))
              IN IF head # <<>> /\ \E i \in 1..Len(head) : head[i] # "/"
                 THEN RStripSlash(head)
                 ELSE head

\* splitext(p): <<root, ext>>; leading dots of the last component are not
\* an extension
splitext(p) ==
  LET sepIndex == RFind(p, "/")
      dotIndex == RFind(p, ".")
  IN IF /\ dotIndex > sepIndex
        /\ \E k \in (sepIndex + 1)..(dotIndex - 1) : p[k] # "."
     THEN <<SubSeq(p, 1, dotIndex - 1), SubSeq(p, dotIndex, Len(p))>>
     ELSE <<p, <<>>>>

join(a, b) == IF Len(b) > 0 /\ b[1] = "/" THEN b
              ELSE IF a = <<>> \/ a[Len(a)] = "/" THEN a \o b
              ELSE a \o <<"/">> \o b

new_image_path_no_dir(original_image_path, json_filename) ==
  splitext(json_filename)[1] \o splitext(original_image_path)[2]

\* the path rename_image_file moves the image to
new_image_path(original_image_path, json_filename) ==
  LET base_dir == dirname(original_image_path)
      original_ext == splitext(original_image_path)[2]
      image_basename == splitext(json_filename)[1]
      new_image_name == image_basename \o original_ext
  IN join(base_dir, new_image_name)

(***************************************************************************)
(* extract_filename_from_date, once date_str is known to be a string.      *)
(***************************************************************************)
filename_of_date(date_str) ==
  LET match == re_match(date_str)
  IN IF match # NoMatch
     THEN Prefix \o match[2] \o <<"_">> \o match[1] \o <<"_">> \o match[3] \o JsonExt
     ELSE UnknownName

(***************************************************************************)
(* Python's exception classes, and which handler catches which.            *)
(***************************************************************************)
ExcBase == [FileNotFoundError |-> "OSError", OSError |-> "Exception",
            RuntimeError |-> "Exception", KeyError |-> "LookupError",
            IndexError |-> "LookupError", LookupError |-> "Exception",
            ValueError |-> "Exception", AttributeError |-> "Exception",
            TypeError |-> "Exception", SDKError |-> "Exception",
            Exception |-> "BaseException"]

RECURSIVE IsSubclass(_, _)
IsSubclass(cls, base) ==
  \/ cls = base
  \/ cls \in DOMAIN ExcBase /\ IsSubclass(ExcBase[cls], base)

\* the class named by each except clause of main
EncodeHandler == "Exception"
KeyHandler == "KeyError"
ApiHandler == "Exception"
ProcessHandlerNarrow == "ValueError"
ProcessHandler == "Exception"

(***************************************************************************)
(* The values json.loads can return, as far as the program looks at them:  *)
(* the type of the value, whether an object has a "date" member, and the   *)
(* type and (for a string) the characters of that member.                  *)
(***************************************************************************)
JsonValue(type, has_date, date_type, date) ==
  [type |-> type, has_date |-> has_date, date_type |-> date_type, date |-> date]

NoValue == JsonValue("unset", FALSE, "none", <<>>)

NonObjectTypes == {"array", "string", "number", "null", "bool"}
NonStringTypes == {"array", "object", "number", "null", "bool"}

\* parsed_data.get("date", ""): the value, or the exception it raises
dict_get_date(parsed_data) ==
  IF parsed_data.type # "object"
  THEN [exc |-> "AttributeError", type |-> "none", str |-> <<>>]
  ELSE IF parsed_data.has_date
  THEN [exc |-> "none", type |-> parsed_data.date_type, str |-> parsed_data.date]
  ELSE [exc |-> "none", type |-> "string", str |-> <<>>]

\* extract_filename_from_date: the filename, or the exception raised
extract_filename_from_date(parsed_data) ==
  LET got == dict_get_date(parsed_data)
  IN IF got.exc # "none" THEN [exc |-> got.exc, filename |-> <<>>]
     ELSE IF got.type # "string" THEN [exc |-> "TypeError", filename |-> <<>>]
     ELSE [exc |-> "none", filename |-> filename_of_date(got.str)]

(***************************************************************************)
(* The reply of the remote API.                                            *)
(***************************************************************************)
ChatResponse(choices, content, valid, value) ==
  [choices |-> choices, content |-> content, valid_json |-> valid, value |-> value]

NoResponse == ChatResponse("unset", "none", FALSE, NoValue)

\* chat_response.choices[0].message.content.strip(): the exception, if any
content_of(chat_response) ==
  IF chat_response.choices = "none" THEN "TypeError"
  ELSE IF chat_response.choices = "empty" THEN "IndexError"
  ELSE IF chat_response.content # "str" THEN "AttributeError"
  ELSE "none"

json_loads_lenient(chat_response) ==
  IF chat_response.valid_json
  THEN [exc |-> "none", value |-> chat_response.value]
  ELSE [exc |-> "none", value |-> JsonValue("object", FALSE, "none", <<>>)]

\* json.loads(response_content) with the JSONDecodeError turned into the
\* ValueError of process_chat_response
json_loads(chat_response) ==
  IF chat_response.valid_json
  THEN [exc |-> "none", value |-> chat_response.value]
  ELSE [exc |-> "ValueError", value |-> NoValue]

(***************************************************************************)
(* Inputs: date strings, replies, image paths.                             *)
(***************************************************************************)
PadChars == {"\n", " "}
Pads(n) == UNION {[1..k -> PadChars] : k \in 0..n}

DayStrs == {<<"1","2">>, <<"1","U+0663">>, <<"1">>, <<"1","x">>}
MonthStrs == {<<"0","3">>, <<"9","9">>, <<"0","3","0">>}
YearStrs == {<<"2","0","2","4">>, <<"2","4">>, <<"2","0","2","4","5">>}
SepPairs == {<<"-", "-">>, <<"/", "/">>}
LeadStrs == {<<>>, <<" ">>}

DateStrs ==
  {<<>>, <<"2","0","2","4","-","0","3","-","1","2">>} \cup
  { lead \o d \o <<sp[1]>> \o m \o <<sp[2]>> \o y \o tail :
      lead \in LeadStrs, d \in DayStrs, sp \in SepPairs, m \in MonthStrs,
      y \in YearStrs, tail \in Pads(MaxTail) }

JsonValues ==
  {JsonValue(t, FALSE, "none", <<>>) : t \in NonObjectTypes \cup {"object"}} \cup
  {JsonValue("object", TRUE, t, <<>>) : t \in NonStringTypes} \cup
  {JsonValue("object", TRUE, "string", s) : s \in DateStrs}

ChatResponses ==
  {ChatResponse("none", "none", FALSE, NoValue),
   ChatResponse("empty", "none", FALSE, NoValue),
   ChatResponse("some", "none", FALSE, NoValue),
   ChatResponse("some", "chunks", FALSE, NoValue),
   ChatResponse("some", "str", FALSE, NoValue)} \cup
  {ChatResponse("some", "str", TRUE, v) : v \in JsonValues}

DotJpg == <<".","j","p","g">>
DatedStem == Prefix \o <<"0","3","_","1","2","_","2","0","2","4">>

\* image paths by their parts: the directory as written in the path (with
\* its slash), the name without extension, the extension
ImagePart(dir, stem, ext) == [dir |-> dir, stem |-> stem, ext |-> ext]
PathOf(part) == part.dir \o part.stem \o part.ext

ImageParts ==
  {ImagePart(<<>>, <<"b">>, DotJpg),
   ImagePart(<<"p","/">>, <<"b">>, DotJpg),
   ImagePart(<<"/">>, <<"b">>, DotJpg),
   ImagePart(<<"p",".","d","/">>, <<"b">>, <<>>),
   ImagePart(<<>>, UnknownStem, DotJpg),
   ImagePart(<<"p","/">>, DatedStem, DotJpg),
   ImagePart(<<>>, <<"b">>, JsonExt),
   ImagePart(<<>>, UnknownStem, JsonExt)}

ImagePaths == {PathOf(part) : part \in ImageParts}

(***************************************************************************)
(* The state of one run of main.                                           *)
(***************************************************************************)
VARIABLES
  image_path,     \* args.image_path
  key_set,        \* whether MISTRAL_API_KEY is in os.environ
  readable,       \* whether open(image_path, "rb") and the read succeed
  fs,             \* the file system: path -> what the file holds
  pc,             \* the statement of main that runs next
  base64_image,   \* <<>> until encode_image has returned
  chat_response,  \* NoResponse until client.chat.complete has returned
  parsed_data,    \* NoValue until json.loads has returned
  json_filename,  \* <<>> until extract_filename_from_date has returned
  printed,        \* what the run has printed so far
  uncaught,       \* the class of an exception that left main, or "none"
  api_calls,      \* number of calls of client.chat.complete
  fs0,            \* history: the file system when the run began
  started,        \* history: the pipeline steps begun, in order
  succeeded,      \* history: the pipeline steps that returned normally
  failed          \* history: the step that failed, or "none"

vars == <<image_path, key_set, readable, fs, pc, base64_image, chat_response,
          parsed_data, json_filename, printed, uncaught, api_calls, fs0,
          started, succeeded, failed>>

inputs == <<image_path, key_set, readable, fs0>>

\* the steps of the pipeline, in the order of the code
Pipeline == <<"encode", "api", "parse", "write", "rename">>

\* the messages main prints for a failure: a fixed text or the exception
ErrorMessages == {"not_found", "api_error"} \cup DOMAIN ExcBase

(***************************************************************************)
(* Where main goes after each step.                                        *)
(***************************************************************************)
AfterKeyErrorContinue == "call_api"
\* the return in the except clause around get_api_key
AfterKeyError == "done"

AfterApiErrorRetry == "call_api"
\* the return in the except clause around client.chat.complete
AfterApiError == "done"

AfterExtractRename == "rename"
\* process_chat_response: save_json_data follows extract_filename_from_date
AfterExtract == "save"

\* an exception of class cls raised inside a try whose clause names handler:
\* caught and printed, or it leaves main
Raise(handler, cls, step, next) ==
  /\ failed' = step
  /\ IF IsSubclass(cls, handler)
     THEN /\ pc' = next
          /\ printed' = Append(printed, cls)
          /\ uncaught' = "none"
     ELSE /\ pc' = "crashed"
          /\ uncaught' = cls
          /\ UNCHANGED printed

Init ==
  /\ image_path \in ImagePaths
  /\ key_set \in BOOLEAN
  /\ readable \in BOOLEAN
  /\ \E exists \in BOOLEAN :
       fs = IF exists THEN (image_path :> "image") @@ (UnknownName :> "old_json")
            ELSE [q \in {UnknownName} \ {image_path} |-> "old_json"]
  /\ fs0 = fs
  /\ pc = "start"
  /\ base64_image = <<>>
  /\ chat_response = NoResponse
  /\ parsed_data = NoValue
  /\ json_filename = <<>>
  /\ printed = <<>>
  /\ uncaught = "none"
  /\ api_calls = 0
  /\ started = <<>>
  /\ succeeded = <<>>
  /\ failed = "none"

\* main: if not os.path.exists(image_path): print(...); return
CheckExists ==
  /\ pc = "start"
  /\ IF image_path \in DOMAIN fs
     THEN /\ pc' = "encode"
          /\ UNCHANGED <<printed, failed>>
     ELSE /\ pc' = "done"
          /\ printed' = Append(printed, "not_found")
          /\ failed' = "exists"
  /\ UNCHANGED <<inputs, fs, base64_image, chat_response, parsed_data,
                 json_filename, uncaught, api_calls, started, succeeded>>

\* encode_image(image_path): the exception it raises, or "none"
encode_image(path) ==
  IF path \notin DOMAIN fs THEN "FileNotFoundError"
  ELSE IF ~readable THEN "RuntimeError"
  ELSE "none"

\* main: try: base64_image = encode_image(image_path) except Exception
EncodeImage ==
  /\ pc = "encode"
  /\ started' = Append(started, "encode")
  /\ IF encode_image(image_path) = "none"
     THEN /\ base64_image' = <<"base64", fs[image_path]>>
          /\ succeeded' = Append(succeeded, "encode")
          /\ pc' = "get_key"
          /\ UNCHANGED <<printed, uncaught, failed>>
     ELSE /\ Raise(EncodeHandler, encode_image(image_path), "encode", "done")
          /\ UNCHANGED <<base64_image, succeeded>>
  /\ UNCHANGED <<inputs, fs, chat_response, parsed_data, json_filename, api_calls>>

\* main: try: api_key = get_api_key() except KeyError
GetApiKey ==
  /\ pc = "get_key"
  /\ IF key_set
     THEN /\ pc' = "call_api"
          /\ UNCHANGED <<printed, uncaught, failed>>
     ELSE Raise(KeyHandler, "KeyError", "get_key", AfterKeyError)
  /\ UNCHANGED <<inputs, fs, base64_image, chat_response, parsed_data,
                 json_filename, api_calls, started, succeeded>>

\* main: try: chat_response = client.chat.complete(...) except Exception
CallApi ==
  /\ pc = "call_api"
  /\ api_calls' = api_calls + 1
  /\ started' = Append(started, "api")
  /\ \/ /\ failed' = "api"
        /\ IF IsSubclass("SDKError", ApiHandler)
           THEN /\ pc' = AfterApiError
                /\ printed' = Append(printed, "api_error")
                /\ uncaught' = "none"
           ELSE /\ pc' = "crashed"
                /\ uncaught' = "SDKError"
                /\ UNCHANGED printed
        /\ UNCHANGED <<chat_response, succeeded>>
     \/ /\ chat_response' \in ChatResponses
        /\ succeeded' = Append(succeeded, "api")
        /\ pc' = "process"
        /\ UNCHANGED <<printed, uncaught, failed>>
  /\ UNCHANGED <<inputs, fs, base64_image, parsed_data, json_filename>>

\* process_chat_response: read the content, print it, json.loads
ParseReply ==
  /\ pc = "process"
  /\ started' = Append(started, "parse")
  /\ IF content_of(chat_response) # "none"
     THEN /\ Raise(ProcessHandler, content_of(chat_response), "parse", "done")
          /\ UNCHANGED <<parsed_data, succeeded>>
     ELSE IF json_loads(chat_response).exc # "none"
     THEN /\ failed' = "parse"
          /\ IF IsSubclass(json_loads(chat_response).exc, ProcessHandler)
             THEN /\ pc' = "done"
                  /\ printed' = printed \o <<"raw", json_loads(chat_response).exc>>
                  /\ uncaught' = "none"
             ELSE /\ pc' = "crashed"
                  /\ printed' = Append(printed, "raw")
                  /\ uncaught' = json_loads(chat_response).exc
          /\ UNCHANGED <<parsed_data, succeeded>>
     ELSE /\ parsed_data' = json_loads(chat_response).value
          /\ printed' = Append(printed, "raw")
          /\ succeeded' = Append(succeeded, "parse")
          /\ pc' = "extract"
          /\ UNCHANGED <<uncaught, failed>>
  /\ UNCHANGED <<inputs, fs, base64_image, chat_response, json_filename, api_calls>>

\* process_chat_response: json_filename = extract_filename_from_date(parsed_data)
ExtractFilename ==
  /\ pc = "extract"
  /\ LET r == extract_filename_from_date(parsed_data)
     IN IF r.exc # "none"
        THEN /\ Raise(ProcessHandler, r.exc, "extract", "done")
             /\ UNCHANGED json_filename
        ELSE /\ json_filename' = r.filename
             /\ printed' = IF r.filename = UnknownName
                           THEN Append(printed, "fallback") ELSE printed
             /\ pc' = AfterExtract
             /\ UNCHANGED <<uncaught, failed>>
  /\ UNCHANGED <<inputs, fs, base64_image, chat_response, parsed_data, api_calls,
                 started, succeeded>>

\* open(filename, "w") followed by json.dump: the file holds the JSON
fs_written(f, filename) == (filename :> "json") @@ f

\* open(filename, "w") succeeded and json.dump did not finish
fs_truncated(f, filename) == (filename :> "partial") @@ f

\* process_chat_response: save_json_data(parsed_data, json_filename)
SaveJson ==
  /\ pc = "save"
  /\ started' = Append(started, "write")
  /\ \/ /\ fs' = fs_written(fs, json_filename)
        /\ printed' = Append(printed, "saved")
        /\ succeeded' = Append(succeeded, "write")
        /\ pc' = "rename"
        /\ UNCHANGED <<uncaught, failed>>
     \/ /\ fs' \in {fs, fs_truncated(fs, json_filename)}
        /\ Raise(ProcessHandler, "RuntimeError", "write", "done")
        /\ UNCHANGED succeeded
  /\ UNCHANGED <<inputs, base64_image, chat_response, parsed_data, json_filename,
                 api_calls>>

\* os.rename(src, dst) when it succeeds: dst is replaced, src is gone
fs_renamed(f, src, dst) ==
  [q \in (DOMAIN f \ {src}) \cup {dst} |-> IF q = dst THEN f[src] ELSE f[q]]

fs_rolled_back(f, filename) == [q \in DOMAIN f \ {filename} |-> f[q]]

\* rename_image_file when os.rename raises: the except clause only re-raises
fs_rename_failed(f, filename) == f

\* process_chat_response: rename_image_file(original_image_path, json_filename)
RenameImage ==
  /\ pc = "rename"
  /\ started' = Append(started, "rename")
  /\ \/ /\ image_path \in DOMAIN fs
        /\ fs' = fs_renamed(fs, image_path, new_image_path(image_path, json_filename))
        /\ printed' = Append(printed, "renamed")
        /\ succeeded' = Append(succeeded, "rename")
        /\ pc' = "done"
        /\ UNCHANGED <<uncaught, failed>>
     \/ /\ fs' = fs_rename_failed(fs, json_filename)
        /\ Raise(ProcessHandler, "RuntimeError", "rename", "done")
        /\ UNCHANGED succeeded
  /\ UNCHANGED <<inputs, base64_image, chat_response, parsed_data, json_filename,
                 api_calls>>

Next ==
  \/ CheckExists
  \/ EncodeImage
  \/ GetApiKey
  \/ CallApi
  \/ ParseReply
  \/ ExtractFilename
  \/ SaveJson
  \/ RenameImage

Spec == Init /\ [][Next]_vars

\* a single-threaded script: the next statement always runs
FairSpec == Spec /\ WF_vars(Next)

(***************************************************************************)
(* Properties.                                                             *)
(***************************************************************************)
Range(seq) == {seq[i] : i \in 1..Len(seq)}
Last(seq) == seq[Len(seq)]

\* the parts the image path was built from
PartsOfImage == CHOOSE part \in ImageParts : PathOf(part) = image_path

\* the image's directory, then the JSON filename without ".json", then the
\* image's extension
ExpectedImagePath ==
  PartsOfImage.dir \o SubSeq(json_filename, 1, Len(json_filename) - Len(JsonExt))
    \o PartsOfImage.ext

\* two digits, "-", two digits, "-", four digits and nothing else
IsDDMMYYYY(s) ==
  /\ Len(s) = 10
  /\ \A i \in {1, 2, 4, 5, 7, 8, 9, 10} : IsDigitChar(s[i])
  /\ s[3] = "-" /\ s[6] = "-"

HasStringDate(v) == v.type = "object" /\ v.has_date /\ v.date_type = "string"

\* C1: the steps begin only in the order encode, api, parse, write, rename,
\* each only after the one before it returned normally; the file system is
\* untouched until the reply is parsed, the image is moved only after the
\* JSON file was written.
C1_PipelineOrder ==
  /\ Len(started) <= Len(Pipeline)
  /\ \A i \in 1..Len(started) : started[i] = Pipeline[i]
  /\ Len(succeeded) <= Len(started)
  /\ \A i \in 1..Len(succeeded) : succeeded[i] = started[i]
  /\ \A i \in 2..Len(started) : Len(succeeded) >= i - 1
  /\ fs # fs0 => "parse" \in Range(succeeded) /\ "write" \in Range(started)
  /\ "rename" \in Range(started) =>
        "write" \in Range(succeeded) /\ json_filename \in DOMAIN fs

C1_Witness == pc = "done" /\ succeeded = Pipeline

\* C2: a reply that parses as JSON but is not an object whose date the
\* pattern accepts gets the sentinel filename, the JSON file is written and
\* the image renamed (unless the write or the rename itself fails).
C2_FallbackForEveryParsedReply ==
  (/\ pc = "done"
   /\ "parse" \in Range(succeeded)
   /\ ~(HasStringDate(parsed_data) /\ re_match(parsed_data.date) # NoMatch)
   /\ failed \notin {"write", "rename"})
  => /\ json_filename = UnknownName
     /\ "write" \in Range(succeeded)
     /\ "rename" \in Range(succeeded)

\* C3: for a date string of the form DD-MM-YYYY the filename is
\* lunch_receipt_MM_DD_YYYY.json with the digits copied; for every other
\* string it is lunch_receipt_unknown_date.json.
C3_FilenameOfDate ==
  (HasStringDate(parsed_data) /\ json_filename # <<>>) =>
    LET s == parsed_data.date
    IN json_filename =
         IF IsDDMMYYYY(s)
         THEN Prefix \o SubSeq(s, 4, 5) \o <<"_">> \o SubSeq(s, 1, 2) \o <<"_">>
                \o SubSeq(s, 7, 10) \o JsonExt
         ELSE UnknownName

C5_SingleCall ==
  /\ api_calls <= 1
  /\ failed = "api" =>
       /\ pc = "done"
       /\ api_calls = 1
       /\ fs = fs0
       /\ Range(started) \cap {"parse", "write", "rename"} = {}

C5_Witness == failed = "api" /\ pc = "done" /\ Last(printed) = "api_error"

\* C6: every run reaches the end of main, no exception leaves main, and a
\* failed step ends the run with its message printed last.
C6_TerminatesCaught ==
  /\ <>(pc = "done")
  /\ [](pc # "crashed" /\ uncaught = "none")
  /\ [](failed # "none" => pc = "done" /\ Last(printed) \in ErrorMessages)

C6_Witness == pc = "done" /\ failed = "rename" /\ Last(printed) = "RuntimeError"

\* C7: when the reply content is not valid JSON the run ends with the
\* ValueError printed and the file system as it was.
C7_InvalidJsonNoEffect ==
  (/\ "parse" \in Range(started)
   /\ content_of(chat_response) = "none"
   /\ ~chat_response.valid_json)
  => /\ pc = "done"
     /\ failed = "parse"
     /\ Last(printed) = "ValueError"
     /\ fs = fs0
     /\ Range(started) \cap {"write", "rename"} = {}

C7_Witness ==
  /\ failed = "parse" /\ Last(printed) = "ValueError"
  /\ UnknownName \in DOMAIN fs /\ fs[UnknownName] = "old_json"
  /\ fs[image_path] = "image"

\* C8: when the image is missing, cannot be encoded or the API key is not
\* set, the run ends with no API call and the file system as it was; the API
\* is called only with an image that was read and a key that is set.
C8_NoCallOnEarlyFailure ==
  /\ failed \in {"exists", "encode", "get_key"} =>
       /\ pc = "done"
       /\ api_calls = 0
       /\ "api" \notin Range(started)
       /\ fs = fs0
  /\ api_calls > 0 => image_path \in DOMAIN fs0 /\ readable /\ key_set

C8_Witness == pc = "done" /\ failed = "get_key" /\ Last(printed) = "KeyError"

\* C9: when the rename fails after the write, the run ends with the file
\* system being the initial one plus the JSON file: the JSON file stays, the
\* image is still at its original path.
C9_NoRollback ==
  failed = "rename" =>
    /\ pc = "done"
    /\ "write" \in Range(succeeded)
    /\ fs = (json_filename :> "json") @@ fs0
    /\ image_path \in DOMAIN fs

C9_Witness ==
  /\ pc = "done" /\ failed = "rename"
  /\ fs[json_filename] = "json"
  /\ image_path \in DOMAIN fs
  /\ ExpectedImagePath \notin DOMAIN fs
====
